---- MODULE Spec2Model ----
(***************************************************************************)
(* auto-file-sorter: the watch session's move pipeline.                    *)
(*                                                                         *)
(* One OnModifiedEventHandler per tracked path, each driven by its own     *)
(* observer thread; on_modified lists the tracked directory and submits    *)
(* one _move_file task per regular file to a ThreadPoolExecutor.  The      *)
(* tasks' file-system calls (mkdir, exists, rename, copy, unlink) are the  *)
(* atomic steps; everything a task computes between two of them is local   *)
(* and is folded into the step before it.                                  *)
(***************************************************************************)
EXTENDS Integers, Sequences, FiniteSets, TLC

(* ------------------------------ bounds --------------------------------- *)
\* files the environment creates in the tracked directories (Spec)
MaxFiles == 2
\* files the environment creates next to the subdirectories (SpecDir)
MaxDirFiles == 2
\* notifications delivered in the session with subdirectories (SpecDir)
MaxDirNotif == 2
\* files the environment creates during a session that is shut down (SpecTrack)
MaxTrackFiles == 2
\* notifications delivered during a session that is shut down (SpecTrack)
MaxTrackNotif == 2
\* files the environment creates in the run of non-overlapping moves (SpecSerial)
MaxSerialFiles == 3
\* notifications the observers deliver during the session
MaxNotif == 2
\* notifications delivered in the run of non-overlapping moves (SpecSerial)
MaxSerialNotif == 3
\* file-system calls that raise during the session
MaxFaults == 1
\* months the clock advances during the run of non-overlapping moves
MaxTicks == 1
\* calls of _add_date_to_path each thread makes (SpecMkdir)
MaxCalls == 2
\* files in the tracked directory when the session starts (SpecQuiet)
MaxQuietFiles == 2
\* commands run and deletions made on one configs location (SpecRead)
MaxEvents == 4
\* highest " (k)" copy already present when a name is resolved (SpecInc)
MaxPresent == 3

(* --------------------------- program constants ------------------------- *)
MOVE_LOG_LEVEL == 60
EXIT_SUCCESS == 0
EXIT_FAILURE == 1
WARNING == 30
INFO == 20
DEBUG == 10
MAX_VERBOSITY_LEVEL == 3
ERROR == 40
CRITICAL == 50

(* ------------------------------ file names ----------------------------- *)
\* A file name is its stem and its suffix; the stem is a base followed by
\* the " (k)" groups appended to it, so that "f (2).txt" is
\* [base |-> "f", inc |-> <<2>>, suffix |-> ".txt"].
MkName(base, inc, suffix) == [base |-> base, inc |-> inc, suffix |-> suffix]

NoName == MkName("", <<>>, "")

\* the numbered name built without the suffix: f"{source.stem} ({increment})"
WithIncrement_NoSuffix(source, increment) ==
    MkName(source.base, Append(source.inc, increment), "")

\* f"{source.stem} ({increment}){source.suffix}"
WithIncrement(source, increment) ==
    MkName(source.base, Append(source.inc, increment), source.suffix)

\* a lookup that takes the suffix as it is spelled
Lower_AsSpelled(s) == s

\* str.lower() on the suffixes that occur
Lower(s) ==
    CASE s = ".TXT" -> ".txt"
      [] s = ".PDF" -> ".pdf"
      [] s = ".Txt" -> ".txt"
      [] OTHER -> s

\* the children the environment drops into a tracked directory during the
\* session (Spec): "f.txt", "g.PDF" and "h.xyz"
DroppedNames ==
    { MkName("f", <<>>, ".txt"), MkName("g", <<>>, ".PDF"), MkName("h", <<>>, ".xyz") }

\* and in the run of non-overlapping moves (SpecSerial): "f.txt" and "f (2).txt"
SerialNames == { MkName("f", <<>>, ".txt"), MkName("f", <<2>>, ".txt") }

\* the subdirectories a tracked directory can hold when the session starts
\* (SpecDir): "d.txt", a directory whose name ends in a mapped extension
DirNames == { MkName("d", <<>>, ".txt") }

\* every name a child of a tracked directory can have
SrcNames == DroppedNames \cup SerialNames \cup DirNames

\* what tracked holds for a child that is a directory, not a file's content
Directory == -1

TrackedDirs == {"w1", "w2"}
Handlers == {"h1", "h2"}

None == "None"

(* ------------------------------ the clock ------------------------------ *)
MonthAbbr ==
    <<"Jan", "Feb", "Mar", "Apr", "May", "Jun",
      "Jul", "Aug", "Sep", "Oct", "Nov", "Dec">>

\* the session starts in December 2024; tick t is t months later
YearOf(t) == 2024 + ((11 + t) \div 12)
MonthOf(t) == ((11 + t) % 12) + 1

\* the month as its number: path / f"{datetime.now():%Y/%m}"
DatedPath_MonthNumber(path, t) ==
    [root |-> path, year |-> YearOf(t), mon |-> ToString(MonthOf(t))]

\* path / f"{datetime.now():%Y/%b}"
DatedPath(path, t) == [root |-> path, year |-> YearOf(t), mon |-> MonthAbbr[MonthOf(t)]]

NoDir == [root |-> None, year |-> 0, mon |-> None]

FilePath(dir, name) == [dir |-> dir, name |-> name]

(* ----------------------------- exceptions ------------------------------ *)
\* the classes a file-system call raises, each with its base classes
Ancestors(e) ==
    CASE e = "PermissionError"   -> {"PermissionError", "OSError", "Exception"}
      [] e = "FileNotFoundError" -> {"FileNotFoundError", "OSError", "Exception"}
      [] e = "OSError"           -> {"OSError", "Exception"}
      [] e = "shutil.Error"      -> {"shutil.Error", "OSError", "Exception"}
      [] e = "ValueError"        -> {"ValueError", "Exception"}

\* what mkdir, exists, copy and unlink can raise whatever the state of the tree
IOErrors == {"PermissionError", "OSError", "shutil.Error", "ValueError"}

\* the clause of OSError written first
ExceptClauses_OSErrorFirst ==
    <<"OSError", "PermissionError", "FileNotFoundError", "Exception">>

\* _move_file without its last clause, "except Exception"
ExceptClauses_NoCatchAll == <<"PermissionError", "FileNotFoundError", "OSError">>

\* the except clauses of _move_file, in order
ExceptClauses == <<"PermissionError", "FileNotFoundError", "OSError", "Exception">>

\* critical() in the first three clauses, exception() in the last
ClauseLevel == <<CRITICAL, CRITICAL, CRITICAL, ERROR>>

RECURSIVE FirstMatch(_, _)
FirstMatch(e, i) ==
    IF i > Len(ExceptClauses) THEN 0
    ELSE IF ExceptClauses[i] \in Ancestors(e) THEN i
    ELSE FirstMatch(e, i + 1)

(* ------------------------------- state --------------------------------- *)
VARIABLES
    extension_paths,                 \* handler.extension_paths (one dict, shared)
    path_for_undefined_extensions,   \* handler.path_for_undefined_extensions
    tracked_path,                    \* handler -> its tracked directory
    tracked,                         \* tracked directory -> name -> content (0: absent)
    dst,                             \* destination file path -> content
    dirs,                            \* the dated directories that exist
    now,                             \* months elapsed on the clock
    nextId,                          \* next content the environment creates
    origin,                          \* content -> the name it was created under
    npc,                             \* handler -> where its on_modified is
    todo,                            \* handler -> children listed, not yet visited
    count,                           \* notifications delivered so far
    tasks,                           \* handler -> name -> the _move_file task
    faults,                          \* file-system calls that have raised so far
    journal,                         \* the 'Moved' records emitted so far
    probe,                           \* the calls of a helper on its own (SpecInc, SpecMkdir, SpecRead, SpecMain)
    configs,                         \* the configs JSON file: extension -> path
    main,                            \* where the command being run is
    observer,                        \* handler -> state of its observer
    exit_code                        \* << >>, or the code the last command returned

vars ==
    << extension_paths, path_for_undefined_extensions, tracked_path, tracked, dst,
       dirs, now, nextId, origin, npc, todo, count, tasks, faults, journal, probe,
       configs, main, observer, exit_code >>

\* the command line side: the configs file and handle_track_args itself
cli == << configs, main, observer, exit_code >>

config == << extension_paths, path_for_undefined_extensions, tracked_path >>

NoTask ==
    [ pc |-> "none", destination_path |-> None, dated |-> NoDir, increment |-> 0,
      new_path |-> NoName, cid |-> 0, removed |-> FALSE, log |-> <<>> ]

NoProbe == [source |-> NoName, result |-> NoName]

\* dict.get(key, default)
DictGet(d, key, default) == IF key \in DOMAIN d THEN d[key] ELSE default

Exists(p) == p \in DOMAIN dst

\* handle_track_args has started an observer for every tracked path and is
\* in its sleep loop
Watching ==
    /\ configs = extension_paths
    /\ main = "watching"
    /\ observer = [h \in Handlers |-> "running"]
    /\ exit_code = << >>

\* the dict built by handle_track_args from the configs file
ExtensionPaths == (".txt" :> "txt") @@ (".pdf" :> "pdf")

Init ==
    /\ extension_paths = ExtensionPaths
    /\ path_for_undefined_extensions \in {None, "misc"}
    /\ tracked_path \in { f \in [Handlers -> TrackedDirs] : f["h1"] = "w1" }
    /\ tracked = [d \in TrackedDirs |-> [n \in SrcNames |-> 0]]
    /\ dst = << >>
    /\ dirs = {}
    /\ now = 0
    /\ nextId = 1
    /\ origin = << >>
    /\ npc = [h \in Handlers |-> "idle"]
    /\ todo = [h \in Handlers |-> {}]
    /\ count = 0
    /\ tasks = [h \in Handlers |-> [n \in SrcNames |-> NoTask]]
    /\ faults = 0
    /\ journal = {}
    /\ probe = NoProbe
    /\ Watching

(* --------------------------- the environment --------------------------- *)
\* a user or a program drops a new file into a tracked directory
CreateFile(d, n, limit) ==
    /\ nextId <= limit
    /\ \E h \in Handlers : tracked_path[h] = d
    /\ tracked[d][n] = 0
    /\ tracked' = [tracked EXCEPT ![d][n] = nextId]
    /\ origin' = (nextId :> n) @@ origin
    /\ nextId' = nextId + 1
    /\ UNCHANGED << config, cli, dst, dirs, now, npc, todo, count, tasks, faults, journal,
                    probe >>

\* datetime.now() moves into the next month
Tick ==
    /\ now < MaxTicks
    /\ now' = now + 1
    /\ UNCHANGED << config, cli, tracked, dst, dirs, nextId, origin, npc, todo, count,
                    tasks, faults, journal, probe >>

(* ------------------------------ on_modified ---------------------------- *)
Terminal(t) == t.pc \in {"none", "done", "escaped"}

\* an executor left without waiting: executor.shutdown(wait=False)
AllTasksDone_NoWait(h) == TRUE

\* ThreadPoolExecutor.__exit__: shutdown(wait=True)
AllTasksDone(h) == \A n \in SrcNames : Terminal(tasks[h][n])

\* self.tracked_path.iterdir()
Listing(d) == { n \in SrcNames : tracked[d][n] # 0 }

SrcPath(h, n) == FilePath(tracked_path[h], n)

NoFile == FilePath(NoDir, NoName)

LogRecord(kind, level, src, dest) ==
    [kind |-> kind, level |-> level, src |-> src, dst |-> dest]

\* the task has returned: its locals are gone, its record is in the log; what
\* it did to the tree (cid: the content it put at the destination, removed:
\* whether it took the source away) is kept to state the claims
Finished(t, record) ==
    [NoTask EXCEPT !.pc = "done", !.cid = t.cid, !.removed = t.removed, !.log = << record >>]

\* the lookup keyed by file_name.suffix as it is spelled, not lowercased
Lookup_NoLower(n) == DictGet(extension_paths, n.suffix, path_for_undefined_extensions)

\* the first statement of _move_file: the destination of the file's suffix
Lookup(n) == DictGet(extension_paths, Lower(n.suffix), path_for_undefined_extensions)

\* _move_file without the "destination_path is None" return: the task goes
\* on to the file-system calls with whatever the lookup gave
Submitted_NoNoneCheck(h, n) ==
    [NoTask EXCEPT !.pc = "mkdir", !.destination_path = Lookup(n)]

\* the task as it stands when it reaches its first file-system call
Submitted(h, n) ==
    LET destination_path == Lookup(n) IN
    IF destination_path = None
    THEN Finished(NoTask, LogRecord("Skipping", WARNING, SrcPath(h, n), NoFile))
    ELSE [NoTask EXCEPT !.pc = "mkdir", !.destination_path = destination_path]

\* the observer thread calls on_modified: the executor is entered and the
\* tracked directory is listed, or the listing raises out of on_modified
OnModified(h, limit) ==
    /\ observer[h] = "running"
    /\ npc[h] \in {"idle", "returned"}
    /\ count < limit
    /\ count' = count + 1
    /\ tasks' = [tasks EXCEPT ![h] = [n \in SrcNames |-> NoTask]]
    /\ \/ /\ npc' = [npc EXCEPT ![h] = "iter"]
          /\ todo' = [todo EXCEPT ![h] = Listing(tracked_path[h])]
       \/ /\ npc' = [npc EXCEPT ![h] = "raised"]
          /\ todo' = [todo EXCEPT ![h] = {}]
    /\ UNCHANGED << config, cli, tracked, dst, dirs, now, nextId, origin, faults, journal, probe >>

\* a lookup that fills the dict in: extension_paths.setdefault(suffix, fallback)
Visit_SetDefault(h, n) ==
    /\ npc[h] = "iter"
    /\ n \in todo[h]
    /\ todo' = [todo EXCEPT ![h] = @ \ {n}]
    /\ IF tracked[tracked_path[h]][n] > 0
       THEN /\ tasks' = [tasks EXCEPT ![h][n] = Submitted(h, n)]
            /\ extension_paths' =
                  IF Lower(n.suffix) \in DOMAIN extension_paths
                  THEN extension_paths
                  ELSE (Lower(n.suffix) :> path_for_undefined_extensions) @@ extension_paths
       ELSE UNCHANGED << tasks, extension_paths >>
    /\ UNCHANGED << path_for_undefined_extensions, tracked_path, cli, tracked, dst, dirs,
                    now, nextId, origin, npc, count, faults, journal, probe >>

\* the for loop without "if child.is_file()": every child is submitted
Visit_NoIsFileCheck(h, n) ==
    /\ npc[h] = "iter"
    /\ n \in todo[h]
    /\ todo' = [todo EXCEPT ![h] = @ \ {n}]
    /\ tasks' = [tasks EXCEPT ![h][n] = Submitted(h, n)]
    /\ UNCHANGED << config, cli, tracked, dst, dirs, now, nextId, origin, npc, count,
                    faults, journal, probe >>

\* one turn of the for loop: child.is_file(), then submit or skip (a child
\* that is a directory, or that is gone since the listing, is no file)
Visit(h, n) ==
    /\ npc[h] = "iter"
    /\ n \in todo[h]
    /\ todo' = [todo EXCEPT ![h] = @ \ {n}]
    /\ IF tracked[tracked_path[h]][n] > 0
       THEN tasks' = [tasks EXCEPT ![h][n] = Submitted(h, n)]
       ELSE UNCHANGED tasks
    /\ UNCHANGED << config, cli, tracked, dst, dirs, now, nextId, origin, npc, count,
                    faults, journal, probe >>

\* a for loop that stops submitting once a task of the batch has failed
LoopDone_StopOnFailure(h) ==
    \/ todo[h] = {}
    \/ \E n \in SrcNames :
          /\ tasks[h][n].pc = "done"
          /\ tasks[h][n].log[1].level \in {ERROR, CRITICAL}

\* the for loop has visited every child that was listed
LoopDone(h) == todo[h] = {}

\* the with block ends: every submitted task has finished, on_modified returns
Return(h) ==
    /\ npc[h] = "iter"
    /\ LoopDone(h)
    /\ AllTasksDone(h)
    /\ npc' = [npc EXCEPT ![h] = "returned"]
    /\ UNCHANGED << config, cli, tracked, dst, dirs, now, nextId, origin, todo, count,
                    tasks, faults, journal, probe >>

(* ------------------------------ _move_file ----------------------------- *)
\* a task that starts over when a step fails
Raised_Retry(h, n, e) == [tasks[h][n] EXCEPT !.pc = "mkdir"]

\* exception e leaves the try block: the first matching except clause logs it
Raised(h, n, e) ==
    LET i == FirstMatch(e, 1)
        t == tasks[h][n] IN
    IF i = 0
    THEN [NoTask EXCEPT !.pc = "escaped", !.cid = t.cid, !.removed = t.removed]
    ELSE Finished(t, LogRecord(ExceptClauses[i], ClauseLevel[i], SrcPath(h, n), NoFile))

\* _add_date_to_path: mkdir(parents=True, exist_ok=True) of the dated directory,
\* then the first candidate of _increment_file_name
AddDateToPath(h, n) ==
    LET t == tasks[h][n]
        dated_path == DatedPath(t.destination_path, now) IN
    /\ t.pc = "mkdir"
    /\ dirs' = dirs \cup {dated_path}
    /\ tasks' = [tasks EXCEPT ![h][n] =
                    [t EXCEPT !.pc = "exists", !.dated = dated_path, !.new_path = n]]
    /\ UNCHANGED << config, cli, tracked, dst, now, nextId, origin, npc, todo, count,
                    faults, journal, probe >>

\* increment: int = 1
FirstIncrement == 1

\* if not new_path.exists(): return new_path
FirstExists(h, n) ==
    LET t == tasks[h][n] IN
    /\ t.pc = "exists"
    /\ tasks' = [tasks EXCEPT ![h][n] =
                    IF Exists(FilePath(t.dated, t.new_path))
                    THEN [t EXCEPT !.pc = "while", !.increment = FirstIncrement]
                    ELSE [t EXCEPT !.pc = "move"]]
    /\ UNCHANGED << config, cli, tracked, dst, dirs, now, nextId, origin, npc, todo, count,
                    faults, journal, probe >>

\* while new_path.exists(): increment += 1; new_path = ...
WhileExists(h, n) ==
    LET t == tasks[h][n] IN
    /\ t.pc = "while"
    /\ tasks' = [tasks EXCEPT ![h][n] =
                    IF Exists(FilePath(t.dated, t.new_path))
                    THEN [t EXCEPT !.increment = @ + 1,
                                   !.new_path = WithIncrement(n, t.increment + 1)]
                    ELSE [t EXCEPT !.pc = "move"]]
    /\ UNCHANGED << config, cli, tracked, dst, dirs, now, nextId, origin, npc, todo, count,
                    faults, journal, probe >>

\* shutil.copy2 in the place of shutil.move: the source stays where it is
Move_CopyOnly(h, n) ==
    LET t == tasks[h][n]
        d == tracked_path[h]
        c == tracked[d][n]
        final_destination_path == FilePath(t.dated, t.new_path) IN
    /\ t.pc = "move"
    /\ \/ /\ c # 0
          /\ dst' = (final_destination_path :> c) @@ dst
          /\ tasks' = [tasks EXCEPT ![h][n] = [t EXCEPT !.pc = "log", !.cid = c]]
       \/ /\ c = 0
          /\ tasks' = [tasks EXCEPT ![h][n] = Raised(h, n, "FileNotFoundError")]
          /\ UNCHANGED dst
    /\ UNCHANGED << config, cli, tracked, dirs, now, nextId, origin, npc, todo, count,
                    faults, journal, probe >>

\* shutil.move: os.rename, which replaces whatever is at the destination;
\* when rename raises OSError, copy to the destination and then unlink the
\* source; a missing source raises FileNotFoundError out of the copy
Move(h, n) ==
    LET t == tasks[h][n]
        d == tracked_path[h]
        c == tracked[d][n]
        final_destination_path == FilePath(t.dated, t.new_path) IN
    /\ t.pc = "move"
    /\ \/ /\ c # 0
          /\ dst' = (final_destination_path :> c) @@ dst
          /\ tracked' = [tracked EXCEPT ![d][n] = 0]
          /\ tasks' = [tasks EXCEPT ![h][n] =
                          [t EXCEPT !.pc = "log", !.cid = c, !.removed = TRUE]]
       \/ /\ c # 0
          /\ dst' = (final_destination_path :> c) @@ dst
          /\ tasks' = [tasks EXCEPT ![h][n] = [t EXCEPT !.pc = "unlink", !.cid = c]]
          /\ UNCHANGED tracked
       \/ /\ c = 0
          /\ tasks' = [tasks EXCEPT ![h][n] = Raised(h, n, "FileNotFoundError")]
          /\ UNCHANGED << tracked, dst >>
    /\ UNCHANGED << config, cli, dirs, now, nextId, origin, npc, todo, count, faults, journal, probe >>

\* os.unlink(src), the second half of the copy fallback
Unlink(h, n) ==
    LET t == tasks[h][n]
        d == tracked_path[h] IN
    /\ t.pc = "unlink"
    /\ \/ /\ tracked[d][n] # 0
          /\ tracked' = [tracked EXCEPT ![d][n] = 0]
          /\ tasks' = [tasks EXCEPT ![h][n] = [t EXCEPT !.pc = "log", !.removed = TRUE]]
       \/ /\ tracked[d][n] = 0
          /\ tasks' = [tasks EXCEPT ![h][n] = Raised(h, n, "FileNotFoundError")]
          /\ UNCHANGED tracked
    /\ UNCHANGED << config, cli, dst, dirs, now, nextId, origin, npc, todo, count,
                    faults, journal, probe >>

\* event_handling_logger.log(MOVE_LOG_LEVEL, "Moved '%s' to '%s'", ...)
LogMoved(h, n) ==
    LET t == tasks[h][n]
        final_destination_path == FilePath(t.dated, t.new_path) IN
    /\ t.pc = "log"
    /\ tasks' = [tasks EXCEPT ![h][n] =
                    Finished(t, LogRecord("Moved", MOVE_LOG_LEVEL, SrcPath(h, n),
                                          final_destination_path))]
    /\ journal' = journal \cup
                    {[src |-> SrcPath(h, n), dst |-> final_destination_path, cid |-> t.cid]}
    /\ UNCHANGED << config, cli, tracked, dst, dirs, now, nextId, origin, npc, todo, count,
                    faults, probe >>

\* mkdir, exists, the copy or unlink raises: the call has no effect
IOFail(h, n, e) ==
    LET t == tasks[h][n] IN
    /\ t.pc \in {"mkdir", "exists", "while", "move", "unlink"}
    /\ faults < MaxFaults
    /\ faults' = faults + 1
    /\ tasks' = [tasks EXCEPT ![h][n] = Raised(h, n, e)]
    /\ UNCHANGED << config, cli, tracked, dst, dirs, now, nextId, origin, npc, todo, count,
                    journal, probe >>

Next ==
    \/ \E d \in TrackedDirs, n \in DroppedNames : CreateFile(d, n, MaxFiles)
    \/ \E h \in Handlers : OnModified(h, MaxNotif)
    \/ \E h \in Handlers, n \in SrcNames : Visit(h, n)
    \/ \E h \in Handlers : Return(h)
    \/ \E h \in Handlers, n \in SrcNames : AddDateToPath(h, n)
    \/ \E h \in Handlers, n \in SrcNames : FirstExists(h, n)
    \/ \E h \in Handlers, n \in SrcNames : WhileExists(h, n)
    \/ \E h \in Handlers, n \in SrcNames : Move(h, n)
    \/ \E h \in Handlers, n \in SrcNames : Unlink(h, n)
    \/ \E h \in Handlers, n \in SrcNames : LogMoved(h, n)
    \/ \E h \in Handlers, n \in SrcNames, e \in IOErrors : IOFail(h, n, e)

Spec == Init /\ [][Next]_vars

(* ------------------ a run of non-overlapping moves --------------------- *)
\* no _move_file task is running
Quiet == \A h \in Handlers, n \in SrcNames : Terminal(tasks[h][n])

\* no on_modified is running
Idle == \A h \in Handlers : npc[h] \in {"idle", "returned"}

\* The same handlers, with one notification handled at a time, every task
\* submitted only once the one before it has returned, and every file-system
\* call succeeding; between two notifications files arrive and the clock runs.
NextSerial ==
    \/ \E d \in TrackedDirs, n \in SerialNames : Idle /\ CreateFile(d, n, MaxSerialFiles)
    \/ Idle /\ Tick
    \/ \E h \in Handlers : Idle /\ OnModified(h, MaxSerialNotif)
    \/ \E h \in Handlers, n \in SrcNames : Quiet /\ Visit(h, n)
    \/ \E h \in Handlers : Return(h)
    \/ \E h \in Handlers, n \in SrcNames : AddDateToPath(h, n)
    \/ \E h \in Handlers, n \in SrcNames : FirstExists(h, n)
    \/ \E h \in Handlers, n \in SrcNames : WhileExists(h, n)
    \/ \E h \in Handlers, n \in SrcNames : Move(h, n)
    \/ \E h \in Handlers, n \in SrcNames : Unlink(h, n)
    \/ \E h \in Handlers, n \in SrcNames : LogMoved(h, n)

InitSerial == Init /\ path_for_undefined_extensions = None

SpecSerial == InitSerial /\ [][NextSerial]_vars

(* ------------- a session whose tracked directories hold ---------------- *)
(* ------------------------- subdirectories ------------------------------ *)
\* the tracked directories hold subdirectories when the observers start
InitDir ==
    /\ extension_paths = ExtensionPaths
    /\ path_for_undefined_extensions \in {None, "misc"}
    /\ tracked_path \in { f \in [Handlers -> TrackedDirs] : f["h1"] = "w1" }
    /\ \E subdirs \in (SUBSET (TrackedDirs \X DirNames)) \ {{}} :
          tracked = [d \in TrackedDirs |->
                        [n \in SrcNames |-> IF <<d, n>> \in subdirs THEN Directory ELSE 0]]
    /\ dst = << >>
    /\ dirs = {}
    /\ now = 0
    /\ nextId = 1
    /\ origin = << >>
    /\ npc = [h \in Handlers |-> "idle"]
    /\ todo = [h \in Handlers |-> {}]
    /\ count = 0
    /\ tasks = [h \in Handlers |-> [n \in SrcNames |-> NoTask]]
    /\ faults = 0
    /\ journal = {}
    /\ probe = NoProbe
    /\ Watching

\* the session of Spec, with files "f.txt" arriving next to the subdirectories
NextDir ==
    \/ \E d \in TrackedDirs : CreateFile(d, MkName("f", <<>>, ".txt"), MaxDirFiles)
    \/ \E h \in Handlers : OnModified(h, MaxDirNotif)
    \/ \E h \in Handlers, n \in SrcNames : Visit(h, n)
    \/ \E h \in Handlers : Return(h)
    \/ \E h \in Handlers, n \in SrcNames : AddDateToPath(h, n)
    \/ \E h \in Handlers, n \in SrcNames : FirstExists(h, n)
    \/ \E h \in Handlers, n \in SrcNames : WhileExists(h, n)
    \/ \E h \in Handlers, n \in SrcNames : Move(h, n)
    \/ \E h \in Handlers, n \in SrcNames : Unlink(h, n)
    \/ \E h \in Handlers, n \in SrcNames : LogMoved(h, n)
    \/ \E h \in Handlers, n \in SrcNames, e \in IOErrors : IOFail(h, n, e)

SpecDir == InitDir /\ [][NextDir]_vars

(* ------------------- _add_date_to_path on its own ---------------------- *)
\* Path.mkdir(parents=True, exist_ok=True), one os.mkdir at a time:
\*     try: os.mkdir(self)
\*     except FileNotFoundError:
\*         if not parents or self.parent == self: raise
\*         self.parent.mkdir(parents=True, exist_ok=True)
\*         self.mkdir(parents=False, exist_ok=exist_ok)
\*     except OSError:
\*         if not exist_ok or not self.is_dir(): raise
\* A directory is the sequence of its parts; << >> is the root.
Callers == {"t1", "t2", "t3"}

\* the destination the threads call _add_date_to_path with
ProbeDestination == "txt"

\* path / f"{datetime.now():%Y/%b}", part by part
Parts(dated) == << dated.root, ToString(dated.year), dated.mon >>

Parent(path) == SubSeq(path, 1, Len(path) - 1)

\* the path and all it lies under
RECURSIVE Upto(_)
Upto(path) == IF path = << >> THEN {<< >>} ELSE {path} \cup Upto(Parent(path))

\* one call of Path.mkdir waiting to run its os.mkdir
Frame(path, parents, exist_ok) == [path |-> path, parents |-> parents, exist_ok |-> exist_ok]

parents == TRUE

\* dated_path.mkdir(parents=True, exist_ok=False)
exist_ok_False == FALSE

exist_ok == TRUE

\* what os.mkdir(path) does on the directories that exist
OsMkdir(existing, path) ==
    IF path \in existing THEN "FileExistsError"
    ELSE IF Parent(path) \notin existing THEN "FileNotFoundError"
    ELSE "ok"

\* the destination may exist or not when the first call is made; no thread
\* has called yet
InitMkdir ==
    /\ extension_paths = ExtensionPaths
    /\ path_for_undefined_extensions = None
    /\ tracked_path = [h \in Handlers |-> "w1"]
    /\ tracked = [d \in TrackedDirs |-> [n \in SrcNames |-> 0]]
    /\ dst = << >>
    /\ dirs = {}
    /\ now = 0
    /\ nextId = 1
    /\ origin = << >>
    /\ npc = [h \in Handlers |-> "idle"]
    /\ todo = [h \in Handlers |-> {}]
    /\ count = 0
    /\ tasks = [h \in Handlers |-> [n \in SrcNames |-> NoTask]]
    /\ faults = 0
    /\ journal = {}
    /\ Watching
    /\ \E top \in Upto(Parts(DatedPath(ProbeDestination, now))) :
          probe = [ existing |-> Upto(top),
                    stack    |-> [c \in Callers |-> << >>],
                    calls    |-> [c \in Callers |-> 0],
                    status   |-> [c \in Callers |-> "idle"],
                    result   |-> [c \in Callers |-> << >>] ]

\* a thread calls _add_date_to_path(destination)
CallAddDateToPath(c) ==
    LET dated_path == Parts(DatedPath(ProbeDestination, now)) IN
    /\ probe.status[c] \in {"idle", "returned"}
    /\ probe.calls[c] < MaxCalls
    /\ probe' = [probe EXCEPT !.stack[c] = << Frame(dated_path, parents, exist_ok) >>,
                              !.calls[c] = @ + 1,
                              !.status[c] = "calling",
                              !.result[c] = << >>]
    /\ UNCHANGED << config, cli, tracked, dst, dirs, now, nextId, origin, npc, todo,
                    count, tasks, faults, journal >>

\* the innermost Path.mkdir of the thread runs its os.mkdir and what follows it
MkdirStep(c) ==
    LET stack == probe.stack[c]
        top == stack[Len(stack)]
        rest == SubSeq(stack, 1, Len(stack) - 1)
        outcome == OsMkdir(probe.existing, top.path)
        returns == [probe EXCEPT !.stack[c] = rest,
                                 !.status[c] = IF rest = << >> THEN "returned" ELSE @,
                                 !.result[c] = IF rest = << >> THEN top.path ELSE @]
        raises == [probe EXCEPT !.stack[c] = << >>, !.status[c] = "raised"]
    IN
    /\ probe.status[c] = "calling"
    /\ probe' =
          CASE outcome = "ok" ->
                  [returns EXCEPT !.existing = @ \cup {top.path}]
            [] outcome = "FileNotFoundError" ->
                  IF ~top.parents \/ Parent(top.path) = top.path
                  THEN raises
                  ELSE [probe EXCEPT !.stack[c] =
                           rest \o << Frame(top.path, FALSE, top.exist_ok),
                                      Frame(Parent(top.path), TRUE, TRUE) >>]
            [] outcome = "FileExistsError" ->
                  IF ~top.exist_ok THEN raises ELSE returns
    /\ UNCHANGED << config, cli, tracked, dst, dirs, now, nextId, origin, npc, todo,
                    count, tasks, faults, journal >>

NextMkdir ==
    \/ \E c \in Callers : CallAddDateToPath(c)
    \/ \E c \in Callers : MkdirStep(c)

SpecMkdir == InitMkdir /\ [][NextMkdir]_vars

(* --------------------------- the write command ------------------------- *)
\* the extensions given to --add and --remove, and the keys of the JSON files
\* given to --load
Extensions == {".TXT", "txt", ". pdf", ""}

\* the extensions given to --remove
RemoveArgs == {".TXT", "txt"}

\* the paths given to --add
PathArgs == {"txt", " "}

\* str.replace(" ", "") on the extensions that occur
RemoveSpaces(s) == IF s = ". pdf" THEN ".pdf" ELSE s

\* str.strip() on the paths that occur
Strip(s) == IF s = " " THEN "" ELSE s

\* FILE_EXTENSION_PATTERN.fullmatch(s): a dot, then letters and digits only
FullMatch(s) == s \in {".txt", ".TXT", ".Txt", ".pdf", ".PDF", ".xyz"}

\* the files given to --load: a suffix, whether the file can be read, and the
\* dict json.loads makes of it
JsonFiles ==
    { [suffix |-> ".json", readable |-> TRUE,  content |-> (".txt" :> "pdf")],
      [suffix |-> ".JSON", readable |-> TRUE,
       content |-> (".TXT" :> "txt") @@ ("txt" :> "txt")],
      [suffix |-> ".json", readable |-> FALSE, content |-> << >>],
      [suffix |-> ".txt",  readable |-> TRUE,  content |-> (".pdf" :> "pdf")] }

\* str.lower() on the suffixes of the files given to --load and of the
\* locations given to --log-location and --configs-location
LowerSuffix(s) ==
    CASE s = ".JSON" -> ".json"
      [] s = ".LOG" -> ".log"
      [] OTHER -> s

\* a step of handle_write_args went through with these configs, or returned
\* EXIT_FAILURE
Ok(cfg) == [ok |-> TRUE, configs |-> cfg]
Failure == [ok |-> FALSE, configs |-> << >>]

\* dict without some keys
Without(cfg, keys) == [k \in (DOMAIN cfg) \ keys |-> cfg[k]]

\* --add: args.new_config is None (<< >>) or [extension, path]
AddNewConfig(cfg, new_config) ==
    IF new_config = << >> THEN Ok(cfg)
    ELSE LET new_extension == RemoveSpaces(Lower(new_config[1]))
             new_path == Strip(new_config[2]) IN
         IF new_extension = "" \/ new_path = "" THEN Failure
         ELSE IF ~FullMatch(new_extension) THEN Failure
         ELSE Ok((new_extension :> new_path) @@ cfg)

\* --load: args.json_file is None (<< >>) or a path; configs.update(...)
LoadJsonFile(cfg, json_file) ==
    IF json_file = << >> THEN Ok(cfg)
    ELSE IF LowerSuffix(json_file[1].suffix) # ".json" THEN Failure
    ELSE IF ~json_file[1].readable THEN Failure
    ELSE Ok(json_file[1].content @@ cfg)

\* a --remove that gives up on the whole list at the first entry it cannot
\* remove
RemoveConfigs_AllOrNothing(cfg, configs_to_be_removed) ==
    LET extensions == { Lower(RemoveSpaces(c)) : c \in configs_to_be_removed } IN
    IF \A extension \in extensions : FullMatch(extension) /\ extension \in DOMAIN cfg
    THEN Without(cfg, extensions)
    ELSE cfg

\* --remove: every valid extension given is deleted when it is a key
RemoveConfigs(cfg, configs_to_be_removed) ==
    Without(cfg, { Lower(RemoveSpaces(c)) : c \in
                     { x \in configs_to_be_removed : FullMatch(Lower(RemoveSpaces(x))) } })

\* a write command that saves what it has when a part fails
HandleWriteArgs_WriteOnFailure(new_config, json_file, configs_to_be_removed) ==
    /\ main = "shell"
    /\ LET added == AddNewConfig(configs, new_config)
           loaded == IF added.ok THEN LoadJsonFile(added.configs, json_file) ELSE Failure
       IN  IF loaded.ok
           THEN /\ configs' = RemoveConfigs(loaded.configs, configs_to_be_removed)
                /\ exit_code' = << "write", EXIT_SUCCESS >>
           ELSE /\ configs' = IF added.ok THEN added.configs ELSE configs
                /\ exit_code' = << "write", EXIT_FAILURE >>
    /\ UNCHANGED << config, main, observer, tracked, dst, dirs, now, nextId, origin,
                    npc, todo, count, tasks, faults, journal, probe >>

\* a write command that removes before it adds and loads
HandleWriteArgs_RemoveFirst(new_config, json_file, configs_to_be_removed) ==
    /\ main = "shell"
    /\ LET added == AddNewConfig(RemoveConfigs(configs, configs_to_be_removed), new_config)
           loaded == IF added.ok THEN LoadJsonFile(added.configs, json_file) ELSE Failure
       IN  IF loaded.ok
           THEN /\ configs' = loaded.configs
                /\ exit_code' = << "write", EXIT_SUCCESS >>
           ELSE /\ configs' = configs
                /\ exit_code' = << "write", EXIT_FAILURE >>
    /\ UNCHANGED << config, main, observer, tracked, dst, dirs, now, nextId, origin,
                    npc, todo, count, tasks, faults, journal, probe >>

\* the write command: nothing is written unless every part went through
HandleWriteArgs(new_config, json_file, configs_to_be_removed) ==
    /\ main = "shell"
    /\ LET added == AddNewConfig(configs, new_config)
           loaded == IF added.ok THEN LoadJsonFile(added.configs, json_file) ELSE Failure
       IN  IF loaded.ok
           THEN /\ configs' = RemoveConfigs(loaded.configs, configs_to_be_removed)
                /\ exit_code' = << "write", EXIT_SUCCESS >>
           ELSE /\ configs' = configs
                /\ exit_code' = << "write", EXIT_FAILURE >>
    /\ UNCHANGED << config, main, observer, tracked, dst, dirs, now, nextId, origin,
                    npc, todo, count, tasks, faults, journal, probe >>

(* --------------------------- the track command ------------------------- *)
\* the paths given to track: the two directories, a path that does not exist
\* and the path of a file
TrackedPathArgs == TrackedDirs \cup {"missing", "notes.txt"}

\* the loop without "if path.is_file(): continue"
IsDirectory_NoIsFileCheck(path) == path # "missing"

\* path.exists() and not path.is_file()
IsDirectory(path) == path \in TrackedDirs

\* handle_track_args without "if not observers: return EXIT_FAILURE"
HandleTrackArgs_NoObserverCheck(tracked_paths, fallback) ==
    /\ main = "shell"
    /\ IF configs = << >>
       THEN /\ exit_code' = << "track", EXIT_FAILURE >>
            /\ UNCHANGED << config, main, observer >>
       ELSE /\ extension_paths' = configs
            /\ path_for_undefined_extensions' = fallback
            /\ tracked_path' = tracked_paths
            /\ observer' = [h \in Handlers |->
                               IF IsDirectory(tracked_paths[h])
                               THEN "running" ELSE "unstarted"]
            /\ main' = "watching"
            /\ exit_code' = << >>
    /\ UNCHANGED << configs, tracked, dst, dirs, now, nextId, origin, npc, todo, count,
                    tasks, faults, journal, probe >>

\* handle_track_args up to its sleep loop: the configs are read, an observer
\* is started for every path that is a directory
HandleTrackArgs(tracked_paths, fallback) ==
    /\ main = "shell"
    /\ IF configs = << >>
       THEN /\ exit_code' = << "track", EXIT_FAILURE >>
            /\ UNCHANGED << config, main, observer >>
       ELSE /\ extension_paths' = configs
            /\ path_for_undefined_extensions' = fallback
            /\ tracked_path' = tracked_paths
            /\ IF \E h \in Handlers : IsDirectory(tracked_paths[h])
               THEN /\ observer' = [h \in Handlers |->
                                       IF IsDirectory(tracked_paths[h])
                                       THEN "running" ELSE "unstarted"]
                    /\ main' = "watching"
                    /\ exit_code' = << >>
               ELSE /\ exit_code' = << "track", EXIT_FAILURE >>
                    /\ UNCHANGED << main, observer >>
    /\ UNCHANGED << configs, tracked, dst, dirs, now, nextId, origin, npc, todo, count,
                    tasks, faults, journal, probe >>

\* KeyboardInterrupt in the sleep loop: the finally block is entered
Interrupt ==
    /\ main = "watching"
    /\ main' = "stopping"
    /\ UNCHANGED << config, configs, observer, exit_code, tracked, dst, dirs, now,
                    nextId, origin, npc, todo, count, tasks, faults, journal, probe >>

\* the observers in the order they were started
Order == << "h1", "h2" >>

\* the observer the finally loop is at
Current(h) ==
    \E i \in 1..Len(Order) :
        /\ Order[i] = h
        /\ \A j \in 1..(i - 1) : observer[Order[j]] \in {"unstarted", "joined"}

\* observer.is_alive(): its thread has not ended
IsAlive(h) ==
    \/ observer[h] = "running" /\ npc[h] # "raised"
    \/ observer[h] = "stopped" /\ npc[h] = "iter"

\* if observer.is_alive(): observer.stop()
StopObserver(h) ==
    /\ main = "stopping"
    /\ Current(h)
    /\ observer[h] = "running"
    /\ observer' = [observer EXCEPT ![h] = IF IsAlive(h) THEN "stopped" ELSE "dead"]
    /\ UNCHANGED << config, configs, main, exit_code, tracked, dst, dirs, now, nextId,
                    origin, npc, todo, count, tasks, faults, journal, probe >>

\* a join that does not wait for the thread: observer.join(timeout=0)
JoinObserver_NoWait(h) ==
    /\ main = "stopping"
    /\ Current(h)
    /\ observer[h] \in {"stopped", "dead"}
    /\ observer' = [observer EXCEPT ![h] = "joined"]
    /\ UNCHANGED << config, configs, main, exit_code, tracked, dst, dirs, now, nextId,
                    origin, npc, todo, count, tasks, faults, journal, probe >>

\* observer.join(): returns once the observer's thread has ended
JoinObserver(h) ==
    /\ main = "stopping"
    /\ Current(h)
    /\ observer[h] \in {"stopped", "dead"}
    /\ ~IsAlive(h)
    /\ observer' = [observer EXCEPT ![h] = "joined"]
    /\ UNCHANGED << config, configs, main, exit_code, tracked, dst, dirs, now, nextId,
                    origin, npc, todo, count, tasks, faults, journal, probe >>

\* the finally loop is over: return EXIT_SUCCESS
TrackReturn ==
    /\ main = "stopping"
    /\ \A h \in Handlers : observer[h] \in {"unstarted", "joined"}
    /\ main' = "exited"
    /\ exit_code' = << "track", EXIT_SUCCESS >>
    /\ UNCHANGED << config, configs, observer, tracked, dst, dirs, now, nextId, origin,
                    npc, todo, count, tasks, faults, journal, probe >>

\* no command has been run yet: the configs file holds the empty dict
InitConfig ==
    /\ extension_paths = << >>
    /\ path_for_undefined_extensions = None
    /\ tracked_path = [h \in Handlers |-> "missing"]
    /\ tracked = [d \in TrackedDirs |-> [n \in SrcNames |-> 0]]
    /\ dst = << >>
    /\ dirs = {}
    /\ now = 0
    /\ nextId = 1
    /\ origin = << >>
    /\ npc = [h \in Handlers |-> "idle"]
    /\ todo = [h \in Handlers |-> {}]
    /\ count = 0
    /\ tasks = [h \in Handlers |-> [n \in SrcNames |-> NoTask]]
    /\ faults = 0
    /\ journal = {}
    /\ probe = NoProbe
    /\ configs = << >>
    /\ main = "shell"
    /\ observer = [h \in Handlers |-> "unstarted"]
    /\ exit_code = << >>

\* write commands, then a watch session on the configs they left
NextConfig ==
    \/ \E new_config \in {<< >>} \cup (Extensions \X PathArgs),
          json_file \in {<< >>} \cup { << j >> : j \in JsonFiles },
          configs_to_be_removed \in SUBSET RemoveArgs :
          HandleWriteArgs(new_config, json_file, configs_to_be_removed)
    \/ \E tracked_paths \in [Handlers -> TrackedPathArgs], fallback \in {None, "misc"} :
          HandleTrackArgs(tracked_paths, fallback)
    \/ Interrupt
    \/ \E h \in Handlers : StopObserver(h)
    \/ \E h \in Handlers : JoinObserver(h)
    \/ TrackReturn

SpecConfig == InitConfig /\ [][NextConfig]_vars

(* ------------------- a session from start to exit --------------------- *)
\* the configs file is empty or holds the two extensions; no command has run
InitTrack ==
    /\ extension_paths = << >>
    /\ path_for_undefined_extensions = None
    /\ tracked_path = [h \in Handlers |-> "missing"]
    /\ tracked = [d \in TrackedDirs |-> [n \in SrcNames |-> 0]]
    /\ dst = << >>
    /\ dirs = {}
    /\ now = 0
    /\ nextId = 1
    /\ origin = << >>
    /\ npc = [h \in Handlers |-> "idle"]
    /\ todo = [h \in Handlers |-> {}]
    /\ count = 0
    /\ tasks = [h \in Handlers |-> [n \in SrcNames |-> NoTask]]
    /\ faults = 0
    /\ journal = {}
    /\ probe = NoProbe
    /\ configs \in {<< >>, ExtensionPaths}
    /\ main = "shell"
    /\ observer = [h \in Handlers |-> "unstarted"]
    /\ exit_code = << >>

\* track is run on "w1" and on paths that are no directory; files "f.txt"
\* arrive, notifications are handled, and the user interrupts at any moment
NextTrack ==
    \/ \E tracked_paths \in [Handlers -> {"w1", "missing", "notes.txt"}] :
          HandleTrackArgs(tracked_paths, None)
    \/ \E d \in TrackedDirs : CreateFile(d, MkName("f", <<>>, ".txt"), MaxTrackFiles)
    \/ \E h \in Handlers : OnModified(h, MaxTrackNotif)
    \/ \E h \in Handlers, n \in SrcNames : Visit(h, n)
    \/ \E h \in Handlers : Return(h)
    \/ \E h \in Handlers, n \in SrcNames : AddDateToPath(h, n)
    \/ \E h \in Handlers, n \in SrcNames : FirstExists(h, n)
    \/ \E h \in Handlers, n \in SrcNames : WhileExists(h, n)
    \/ \E h \in Handlers, n \in SrcNames : Move(h, n)
    \/ \E h \in Handlers, n \in SrcNames : Unlink(h, n)
    \/ \E h \in Handlers, n \in SrcNames : LogMoved(h, n)
    \/ \E h \in Handlers, n \in SrcNames, e \in IOErrors : IOFail(h, n, e)
    \/ Interrupt
    \/ \E h \in Handlers : StopObserver(h)
    \/ \E h \in Handlers : JoinObserver(h)
    \/ TrackReturn

SpecTrack == InitTrack /\ [][NextTrack]_vars

(* ------------- a session that no one writes to from outside ----------- *)
\* observer.schedule(event_handler, path, recursive=True): the observer of a
\* tracked directory reports every change below it.  "w1" holds the files;
\* the destination "txt" lies inside it ("w1/txt"), the others outside.
InsideWatched == {"txt"}

\* the contents that have left the tracked directory
Left == { c \in 1..(nextId - 1) : \A d \in TrackedDirs, n \in SrcNames : tracked[d][n] # c }

\* the changes made so far that an observer of "w1" reports: the start of the
\* session, every file that left "w1", every directory made and every file
\* put below "w1"
Changes ==
    1 + Cardinality(Left)
      + Cardinality({ b \in dirs : b.root \in InsideWatched })
      + Cardinality({ p \in DOMAIN dst : p.dir.root \in InsideWatched })

\* the notifications the observer of "w1" has to deliver: one for each
\* change it reports (nothing changes in "w2": its observer reports nothing)
Notifications == Changes

\* "w1" holds one or two files when the observers start; nothing else will
\* ever be put there
InitQuiet ==
    /\ extension_paths = ExtensionPaths
    /\ path_for_undefined_extensions \in {None, "misc"}
    /\ tracked_path = ("h1" :> "w1") @@ ("h2" :> "w2")
    /\ \E k \in 1..MaxQuietFiles :
          \E files \in { f \in [1..k -> DroppedNames] : \A i, j \in 1..k : f[i] = f[j] => i = j } :
              /\ tracked = [d \in TrackedDirs |-> [n \in SrcNames |->
                                IF d = "w1" /\ \E i \in 1..k : files[i] = n
                                THEN CHOOSE i \in 1..k : files[i] = n
                                ELSE 0]]
              /\ origin = files
              /\ nextId = k + 1
    /\ dst = << >>
    /\ dirs = {}
    /\ now = 0
    /\ npc = [h \in Handlers |-> "idle"]
    /\ todo = [h \in Handlers |-> {}]
    /\ count = 0
    /\ tasks = [h \in Handlers |-> [n \in SrcNames |-> NoTask]]
    /\ faults = 0
    /\ journal = {}
    /\ probe = NoProbe
    /\ Watching

\* the session of Spec with no file arriving, the tracked directories left in
\* place (so that listing them does not fail), and a notification for every
\* change the session itself makes
NextQuiet ==
    \/ \E h \in Handlers :
          tracked_path[h] = "w1" /\ OnModified(h, Notifications) /\ npc'[h] = "iter"
    \/ \E h \in Handlers, n \in SrcNames : Visit(h, n)
    \/ \E h \in Handlers : Return(h)
    \/ \E h \in Handlers, n \in SrcNames : AddDateToPath(h, n)
    \/ \E h \in Handlers, n \in SrcNames : FirstExists(h, n)
    \/ \E h \in Handlers, n \in SrcNames : WhileExists(h, n)
    \/ \E h \in Handlers, n \in SrcNames : Move(h, n)
    \/ \E h \in Handlers, n \in SrcNames : Unlink(h, n)
    \/ \E h \in Handlers, n \in SrcNames : LogMoved(h, n)
    \/ \E h \in Handlers, n \in SrcNames, e \in IOErrors : IOFail(h, n, e)

\* every thread that can take a step takes one in the end
SpecQuiet == InitQuiet /\ [][NextQuiet]_vars /\ WF_vars(NextQuiet)

(* ------------------- read_from_configs on its own ---------------------- *)
\* The configs location holds no file (None) or a text.  The texts a user
\* can have left there: the empty object, one entry, and a text that is no JSON.
JsonTexts == { "{}", "{\".txt\": \"txt\"}", "{" }

\* json.dumps(new_configs, indent=4) on the dicts that occur
Dumps(cfg) ==
    IF cfg = << >> THEN "{}"
    ELSE IF cfg = (".txt" :> "txt") THEN "{\n    \".txt\": \"txt\"\n}"
    ELSE "{...}"

\* json.loads(text): the dict, or JSONDecodeError
Loads(text) ==
    CASE text = "{}" -> Ok(<< >>)
      [] text \in { "{\".txt\": \"txt\"}", "{\n    \".txt\": \"txt\"\n}" } ->
            Ok(".txt" :> "txt")
      [] OTHER -> Failure

\* how a call of read_from_configs ends
Returned(cfg) == [kind |-> "return", code |-> 0, configs |-> cfg]
SystemExit(code) == [kind |-> "SystemExit", code |-> code, configs |-> << >>]

\* read_from_configs whose FileNotFoundError clause only logs and exits
ReadFromConfigs_NoFallbackWrite(file) ==
    IF file = None THEN [outcome |-> SystemExit(EXIT_FAILURE), file |-> file]
    ELSE IF ~Loads(file).ok THEN [outcome |-> SystemExit(EXIT_FAILURE), file |-> file]
    ELSE [outcome |-> Returned(Loads(file).configs), file |-> file]

\* read_from_configs(configs=location): how it ends and what the location
\* holds afterwards
ReadFromConfigs(file) ==
    IF file = None THEN [outcome |-> SystemExit(EXIT_FAILURE), file |-> Dumps(<< >>)]
    ELSE IF ~Loads(file).ok THEN [outcome |-> SystemExit(EXIT_FAILURE), file |-> file]
    ELSE [outcome |-> Returned(Loads(file).configs), file |-> file]

Event(op, before, outcome) == [op |-> op, before |-> before, outcome |-> outcome]

\* the location holds no file, or any of the texts; nothing has been run
InitRead ==
    /\ extension_paths = << >>
    /\ path_for_undefined_extensions = None
    /\ tracked_path = [h \in Handlers |-> "missing"]
    /\ tracked = [d \in TrackedDirs |-> [n \in SrcNames |-> 0]]
    /\ dst = << >>
    /\ dirs = {}
    /\ now = 0
    /\ nextId = 1
    /\ origin = << >>
    /\ npc = [h \in Handlers |-> "idle"]
    /\ todo = [h \in Handlers |-> {}]
    /\ count = 0
    /\ tasks = [h \in Handlers |-> [n \in SrcNames |-> NoTask]]
    /\ faults = 0
    /\ journal = {}
    /\ configs = << >>
    /\ main = "shell"
    /\ observer = [h \in Handlers |-> "unstarted"]
    /\ exit_code = << >>
    /\ \E file \in {None} \cup JsonTexts : probe = [file |-> file, log |-> << >>]

\* a command that only reads the configs (read, track) is run
ReadCommand ==
    LET r == ReadFromConfigs(probe.file) IN
    /\ Len(probe.log) < MaxEvents
    /\ probe' = [file |-> r.file,
                 log |-> Append(probe.log, Event("read", probe.file, r.outcome))]
    /\ UNCHANGED << config, cli, tracked, dst, dirs, now, nextId, origin, npc, todo,
                    count, tasks, faults, journal >>

\* a write command is run: read_from_configs, then write_to_configs of the
\* dict the command made
WriteCommand(cfg) ==
    LET r == ReadFromConfigs(probe.file) IN
    /\ Len(probe.log) < MaxEvents
    /\ probe' = [file |-> IF r.outcome.kind = "return" THEN Dumps(cfg) ELSE r.file,
                 log |-> Append(probe.log, Event("write", probe.file, r.outcome))]
    /\ UNCHANGED << config, cli, tracked, dst, dirs, now, nextId, origin, npc, todo,
                    count, tasks, faults, journal >>

\* the user deletes the configs file
DeleteConfigs ==
    /\ Len(probe.log) < MaxEvents
    /\ probe.file # None
    /\ probe' = [file |-> None,
                 log |-> Append(probe.log, Event("delete", probe.file, Returned(<< >>)))]
    /\ UNCHANGED << config, cli, tracked, dst, dirs, now, nextId, origin, npc, todo,
                    count, tasks, faults, journal >>

NextRead ==
    \/ ReadCommand
    \/ \E cfg \in {<< >>, (".txt" :> "txt")} : WriteCommand(cfg)
    \/ DeleteConfigs

SpecRead == InitRead /\ [][NextRead]_vars

(* --------------------------- main's startup --------------------------- *)
\* a location is the name of a file and its suffix
Location(name, suffix) == [name |-> name, suffix |-> suffix]

DEFAULT_LOG_LOCATION == Location("auto-file-sorter", ".log")
DEFAULT_CONFIGS_LOCATION == Location("configs", ".json")

\* no FileHandler has been made yet
NoLocation == Location(None, None)

\* what --log-location and --configs-location can be on the command line;
\* each defaults to its DEFAULT_ location
LogLocations ==
    { DEFAULT_LOG_LOCATION, Location("my", ".log"), Location("my", ".LOG"),
      Location("my", ".txt") }
ConfigsLocations ==
    { DEFAULT_CONFIGS_LOCATION, Location("my", ".json"), Location("my", ".JSON"),
      Location("my", ".txt") }

\* the number of -v flags
VerbosityLevels == {0, MAX_VERBOSITY_LEVEL, MAX_VERBOSITY_LEVEL + 1}

\* a record the file handler has written: the file it went to, its level
\* and which message it is
Written(file, level, message) == [file |-> file, level |-> level, message |-> message]

\* _parse_args has returned: main is about to call _setup_logging
InitMain ==
    /\ extension_paths = << >>
    /\ path_for_undefined_extensions = None
    /\ tracked_path = [h \in Handlers |-> "missing"]
    /\ tracked = [d \in TrackedDirs |-> [n \in SrcNames |-> 0]]
    /\ dst = << >>
    /\ dirs = {}
    /\ now = 0
    /\ nextId = 1
    /\ origin = << >>
    /\ npc = [h \in Handlers |-> "idle"]
    /\ todo = [h \in Handlers |-> {}]
    /\ count = 0
    /\ tasks = [h \in Handlers |-> [n \in SrcNames |-> NoTask]]
    /\ faults = 0
    /\ journal = {}
    /\ configs = << >>
    /\ main = "shell"
    /\ observer = [h \in Handlers |-> "unstarted"]
    /\ exit_code = << >>
    /\ \E log_location \in LogLocations, configs_location \in ConfigsLocations,
          verbosity_level \in VerbosityLevels, debugging \in BOOLEAN :
          probe = [ pc |-> "parsed",
                    args |-> [ log_location |-> log_location,
                               configs_location |-> configs_location,
                               verbosity_level |-> verbosity_level,
                               debugging |-> debugging ],
                    given |-> log_location,
                    file_handler |-> NoLocation,
                    log_level |-> 0,
                    records |-> << >>,
                    printed |-> NoLocation ]

\* what the file handler writes of the records logged, in order: those at
\* or above the level given to basicConfig
Emit(file, messages) ==
    [ i \in 1..Len(messages) |-> Written(file, messages[i][1], messages[i][2]) ]

Keep(records, log_level) == SelectSeq(records, LAMBDA r : r.level >= log_level)

\* _setup_logging(args): the FileHandler is opened on args.log_location
SetupLogging ==
    LET args == probe.args
        log_level == IF ~args.debugging THEN INFO ELSE DEBUG
        messages ==
            (IF args.verbosity_level > MAX_VERBOSITY_LEVEL
             THEN << << WARNING, "verbosity exceeded" >> >> ELSE << >>)
            \o (IF args.verbosity_level >= MAX_VERBOSITY_LEVEL /\ ~args.debugging
                THEN << << WARNING, "debugging disabled" >> >> ELSE << >>)
            \o << << INFO, "Started logging" >> >>
    IN
    /\ probe.pc = "parsed"
    /\ probe' = [probe EXCEPT
                    !.pc = "logging",
                    !.file_handler = args.log_location,
                    !.log_level = log_level,
                    !.records = Keep(Emit(args.log_location, messages), log_level)]
    /\ UNCHANGED << config, cli, tracked, dst, dirs, now, nextId, origin, npc, todo,
                    count, tasks, faults, journal >>

\* _check_specified_locations(args): a location of the wrong file type is
\* replaced in args by its default
CheckSpecifiedLocations ==
    LET args == probe.args
        bad_log == LowerSuffix(args.log_location.suffix) # ".log"
        bad_configs == LowerSuffix(args.configs_location.suffix) # ".json"
        messages ==
            (IF bad_log THEN << << WARNING, "not a .log file" >> >> ELSE << >>)
            \o (IF bad_configs THEN << << WARNING, "not a .json file" >> >> ELSE << >>)
    IN
    /\ probe.pc = "logging"
    /\ probe' = [probe EXCEPT
                    !.pc = "checked",
                    !.args.log_location =
                        IF bad_log THEN DEFAULT_LOG_LOCATION ELSE @,
                    !.args.configs_location =
                        IF bad_configs THEN DEFAULT_CONFIGS_LOCATION ELSE @,
                    !.records = @ \o Keep(Emit(probe.file_handler, messages),
                                          probe.log_level)]
    /\ UNCHANGED << config, cli, tracked, dst, dirs, now, nextId, origin, npc, todo,
                    count, tasks, faults, journal >>

\* main_logger.debug("args=%s", ...), then args.handle(args): the locations
\* command prints args.log_location
Handle ==
    /\ probe.pc = "checked"
    /\ probe' = [probe EXCEPT
                    !.pc = "handled",
                    !.printed = probe.args.log_location,
                    !.records = @ \o Keep(Emit(probe.file_handler, << << DEBUG, "args" >> >>),
                                          probe.log_level)]
    /\ UNCHANGED << config, cli, tracked, dst, dirs, now, nextId, origin, npc, todo,
                    count, tasks, faults, journal >>

NextMain ==
    \/ SetupLogging
    \/ CheckSpecifiedLocations
    \/ Handle

SpecMain == InitMain /\ [][NextMain]_vars

(* ----------------- _increment_file_name on its own --------------------- *)
ExistsIn(fs, p) == p \in DOMAIN fs

RECURSIVE WhileLoop(_, _, _, _, _)
\* while new_path.exists(): increment += 1; new_path = destination / f"..."
WhileLoop(fs, destination, source, new_path, increment) ==
    IF ExistsIn(fs, FilePath(destination, new_path))
    THEN WhileLoop(fs, destination, source,
                   WithIncrement(source, increment + 1), increment + 1)
    ELSE new_path

\* a helper that numbers the name once and does not look again
IncrementFileName_NoRecheck(fs, destination, source) ==
    IF ~ExistsIn(fs, FilePath(destination, source))
    THEN source
    ELSE WithIncrement(source, FirstIncrement + 1)

\* _increment_file_name(destination, source) with no concurrent writer; the
\* result is the name part of the path returned
IncrementFileName(fs, destination, source) ==
    IF ~ExistsIn(fs, FilePath(destination, source))
    THEN source
    ELSE WhileLoop(fs, destination, source, source, FirstIncrement)

\* the directory the helper is called on
ProbeDir == DatedPath("txt", 0)

\* the sources it is called with
ProbeSources == SerialNames

\* the names that may be present in the directory beforehand
ProbeNames ==
    ProbeSources \cup { WithIncrement(src, k) : src \in ProbeSources, k \in 1..MaxPresent }

InitInc ==
    /\ extension_paths = ExtensionPaths
    /\ path_for_undefined_extensions = None
    /\ tracked_path = [h \in Handlers |-> "w1"]
    /\ tracked = [d \in TrackedDirs |-> [n \in SrcNames |-> 0]]
    /\ \E present \in SUBSET ProbeNames :
          dst = [p \in { FilePath(ProbeDir, n) : n \in present } |-> 1]
    /\ dirs = {ProbeDir}
    /\ now = 0
    /\ nextId = 2
    /\ origin = << >>
    /\ npc = [h \in Handlers |-> "idle"]
    /\ todo = [h \in Handlers |-> {}]
    /\ count = 0
    /\ tasks = [h \in Handlers |-> [n \in SrcNames |-> NoTask]]
    /\ faults = 0
    /\ journal = {}
    /\ probe = NoProbe
    /\ Watching

\* the call
Resolve(source) ==
    /\ probe = NoProbe
    /\ probe' = [source |-> source,
                 result |-> IncrementFileName(dst, ProbeDir, source)]
    /\ UNCHANGED << config, cli, tracked, dst, dirs, now, nextId, origin, npc, todo, count,
                    tasks, faults, journal >>

\* a file is put under the name returned, and the helper can be called again
Occupy ==
    /\ probe # NoProbe
    /\ probe.result \in ProbeNames
    /\ dst' = (FilePath(ProbeDir, probe.result) :> 1) @@ dst
    /\ probe' = NoProbe
    /\ UNCHANGED << config, cli, tracked, dirs, now, nextId, origin, npc, todo, count,
                    tasks, faults, journal >>

NextInc ==
    \/ \E source \in ProbeSources : Resolve(source)
    \/ Occupy

SpecInc == InitInc /\ [][NextInc]_vars

(* ------------------------------ notation ------------------------------- *)
\* '<stem> (k)<suffix>', written out
Copy(name, k) == MkName(name.base, Append(name.inc, k), name.suffix)

\* the name of the i-th file of that name to arrive
Slot(name, i) == IF i = 1 THEN name ELSE Copy(name, i)

FailureKinds == {"PermissionError", "FileNotFoundError", "OSError", "Exception"}

Kind(t) == IF t.pc = "done" THEN t.log[1].kind ELSE "none"

Failed(t) == Kind(t) \in FailureKinds

\* the contents the environment has created
Created == 1..(nextId - 1)

Holders(c) ==
    { <<d, n>> \in TrackedDirs \X SrcNames : tracked[d][n] = c }

Places(c) == { p \in DOMAIN dst : dst[p] = c }

\* the files of a dated directory, and the 'Moved' records into it
Bucket(b) == { p \in DOMAIN dst : p.dir = b }
MovedInto(b) == { r \in journal : r.dst.dir = b }

(* ------------------------------ the claims ----------------------------- *)

\* C1: a move never overwrites an existing file under any interleaving of
\* _move_file tasks: every file that was dropped into a tracked directory
\* still exists, in the tracked directory or at a destination.
C1_NoContentLost == \A c \in Created : Holders(c) # {} \/ Places(c) # {}

\* C2: with no concurrent writer _increment_file_name returns <name> when it
\* is free, and otherwise '<stem> (N)<suffix>' for the smallest N >= 2 that is
\* free; the result is free, and '<stem> (1)<suffix>' plays no part: with
\* <name> and (1)..(k) present and (k+1) free the result is (k+1).
C2_IncrementFileName ==
    probe # NoProbe =>
        LET source == probe.source
            result == probe.result
            Taken(name) == FilePath(ProbeDir, name) \in DOMAIN dst
            one == FilePath(ProbeDir, Copy(source, 1))
            without1 == [p \in (DOMAIN dst) \ {one} |-> dst[p]]
            with1 == (one :> 1) @@ dst
        IN  /\ ~Taken(result)
            /\ ~Taken(source) => result = source
            /\ Taken(source) =>
                  \E N \in 2..(Cardinality(DOMAIN dst) + 2) :
                      /\ result = Copy(source, N)
                      /\ \A k \in 2..(N - 1) : Taken(Copy(source, k))
            /\ IncrementFileName(without1, ProbeDir, source) = result
            /\ IncrementFileName(with1, ProbeDir, source) = result
            /\ \A k \in 1..MaxPresent :
                  ( /\ Taken(source)
                    /\ \A j \in 1..k : Taken(Copy(source, j))
                    /\ ~Taken(Copy(source, k + 1)) )
                  => result = Copy(source, k + 1)

\* "f.txt", "f (1).txt" and "f (2).txt" are present: the result is "f (3).txt"
C2_Witness ==
    /\ probe # NoProbe
    /\ probe.source = MkName("f", <<>>, ".txt")
    /\ \A n \in {probe.source, Copy(probe.source, 1), Copy(probe.source, 2)} :
          FilePath(ProbeDir, n) \in DOMAIN dst
    /\ probe.result = Copy(probe.source, 3)

\* C3: after n non-overlapping successful moves of files of one name into one
\* dated directory, the directory holds exactly n files, named <name>,
\* '<stem> (2)<suffix>', ..., '<stem> (n)<suffix>', one for each file moved.
C3_SerialMoves ==
    Quiet =>
        \A b \in dirs, name \in SrcNames :
            { r.src.name : r \in MovedInto(b) } = {name} =>
                LET k == Cardinality(MovedInto(b)) IN
                /\ { p.name : p \in Bucket(b) } = { Slot(name, i) : i \in 1..k }
                /\ Cardinality(Bucket(b)) = k
                /\ \A r \in MovedInto(b) : r.dst \in Bucket(b) /\ dst[r.dst] = r.cid
                /\ \A p, q \in Bucket(b) : dst[p] = dst[q] => p = q

\* three files "f.txt" have been moved into one dated directory
C3_Witness ==
    /\ Quiet
    /\ \E b \in dirs :
          /\ Cardinality(MovedInto(b)) = 3
          /\ \A r \in MovedInto(b) : r.src.name = MkName("f", <<>>, ".txt")
          /\ FilePath(b, MkName("f", <<3>>, ".txt")) \in DOMAIN dst

\* the entry of the ExtensionMap that a name's suffix selects, if any
Mapped(name) == \E key \in DOMAIN extension_paths : key = Lower(name.suffix)
Root(name) ==
    IF Mapped(name)
    THEN extension_paths[CHOOSE key \in DOMAIN extension_paths : key = Lower(name.suffix)]
    ELSE path_for_undefined_extensions

\* C4: a file handed to _move_file goes to the ExtensionMap entry of its
\* suffix when there is one and to the fallback otherwise; a moved file is at
\* <root>/<year>/<month>/<name or '<stem> (N)<suffix>'>, and no file is ever
\* under the root of another extension.
C4_ExtensionRouting ==
    /\ \A h \in Handlers, n \in SrcNames :
          tasks[h][n].pc \notin {"none", "done", "escaped"} =>
              /\ tasks[h][n].destination_path = Root(n)
              /\ tasks[h][n].dated # NoDir => tasks[h][n].dated.root = Root(n)
    /\ \A r \in journal :
          /\ r.dst.dir \in { DatedPath(Root(r.src.name), t) : t \in 0..now }
          /\ r.dst.dir \in dirs
          /\ \E N \in 1..(Cardinality(DOMAIN dst) + 1) : r.dst.name = Slot(r.src.name, N)
          /\ r.dst \in DOMAIN dst
    /\ \A p \in DOMAIN dst : p.dir.root = Root(origin[dst[p]])

\* "g.PDF" has been moved under the root of ".pdf" and "h.xyz" under the fallback
C4_Witness ==
    /\ \E r \in journal : r.src.name.suffix = ".PDF" /\ r.dst.dir.root = "pdf"
    /\ \E r \in journal : r.src.name.suffix = ".xyz" /\ r.dst.dir.root = "misc"

\* C5: with no fallback configured, a file whose suffix is not in the
\* ExtensionMap is skipped: its task ends at once with one record at warning
\* level, creates no directory, moves nothing, and the file stays where it is.
C5_SkipUnmapped ==
    path_for_undefined_extensions = None =>
        \A h \in Handlers, n \in SrcNames :
            (~Mapped(n) /\ tasks[h][n].pc # "none") =>
                LET t == tasks[h][n] IN
                /\ t.pc = "done"
                /\ Len(t.log) = 1
                /\ t.log[1].kind = "Skipping"
                /\ t.log[1].level = WARNING
                /\ t.log[1].level < ERROR
                /\ t.dated = NoDir /\ t.cid = 0 /\ ~t.removed
                /\ tracked[tracked_path[h]][n] # 0
                /\ \A r \in journal : r.src.name # n
                /\ \A p \in DOMAIN dst : origin[dst[p]] # n
                /\ \A b \in dirs : \E key \in DOMAIN extension_paths :
                                      b.root = extension_paths[key]

\* "h.xyz" has been skipped
C5_Witness ==
    /\ path_for_undefined_extensions = None
    /\ \E h \in Handlers, n \in SrcNames : ~Mapped(n) /\ Kind(tasks[h][n]) = "Skipping"

\* C6: within one notification the failure of one file's task stops nothing:
\* every regular file the loop visits is submitted, and on_modified ends only
\* by returning, with every child visited and every task finished and logged
\* (a task that moved its file by a 'Moved' record).
C6_PerFileIsolation ==
    [][ \A h \in Handlers :
          /\ \A n \in SrcNames :
                ( /\ npc[h] = "iter"
                  /\ n \in todo[h]
                  /\ n \notin todo'[h]
                  /\ tracked[tracked_path[h]][n] # 0 )
                => tasks'[h][n].pc # "none"
          /\ (npc[h] = "iter" /\ npc'[h] # "iter") =>
                /\ npc'[h] = "returned"
                /\ todo[h] = {}
                /\ \A n \in SrcNames :
                      /\ tasks[h][n].pc \in {"none", "done"}
                      /\ tasks[h][n].pc = "done" => Len(tasks[h][n].log) = 1
                      /\ tasks[h][n].removed =>
                            /\ Kind(tasks[h][n]) = "Moved"
                            /\ tasks[h][n].log[1].level = MOVE_LOG_LEVEL
      ]_vars

\* a notification has returned with one task failed and another 'Moved'
C6_Witness ==
    \E h \in Handlers :
        /\ npc[h] = "returned"
        /\ \E a, b \in SrcNames :
              /\ Kind(tasks[h][a]) \in {"PermissionError", "OSError", "Exception"}
              /\ Kind(tasks[h][b]) = "Moved"

\* C7: a failure to list the tracked directory never escapes on_modified.
C7_EnumerationFailureContained == \A h \in Handlers : npc[h] # "raised"

TaskStep(h, n) ==
    \/ AddDateToPath(h, n)
    \/ FirstExists(h, n)
    \/ WhileExists(h, n)
    \/ Move(h, n)
    \/ Unlink(h, n)
    \/ LogMoved(h, n)

\* the level of each outcome record
LevelOf(kind) ==
    CASE kind = "Skipping" -> WARNING
      [] kind = "Moved" -> MOVE_LOG_LEVEL
      [] kind = "Exception" -> ERROR
      [] OTHER -> CRITICAL

\* C8: a _move_file task ends skipped, moved or failed, with exactly one
\* outcome record (the skip warning, the 'Moved' record or an error record)
\* and none before it ends; no exception leaves the task; until it ends the
\* task can always take its next step, and its loop is bounded by the files
\* present.
C8_TaskOutcome ==
    \A h \in Handlers, n \in SrcNames :
        LET t == tasks[h][n] IN
        /\ t.pc # "escaped"
        /\ t.pc = "done" =>
              /\ Len(t.log) = 1
              /\ Kind(t) \in {"Skipping", "Moved"} \cup FailureKinds
              /\ t.log[1].level = LevelOf(Kind(t))
              /\ Kind(t) = "Moved" <=> t.removed
              /\ Kind(t) = "Skipping" => t.cid = 0
        /\ t.pc \notin {"none", "done", "escaped"} =>
              /\ t.log = << >>
              /\ ENABLED TaskStep(h, n)
              /\ t.increment <= Cardinality(DOMAIN dst) + 1

\* an error that is no OSError has been caught and logged
C8_Witness ==
    \E h \in Handlers, n \in SrcNames : Kind(tasks[h][n]) = "Exception"

\* C9: a task that failed has left its source file alone and has put nothing
\* at the destination.
C9_FailedMoveLeavesNoCopy ==
    \A h \in Handlers, n \in SrcNames :
        Failed(tasks[h][n]) => tasks[h][n].cid = 0 /\ ~tasks[h][n].removed

\* C10: when the 'Moved' record is emitted the file is at the logged
\* destination, there only, and no longer at the source.
C10_OneCopyWhenLogged ==
    [][ \A h \in Handlers, n \in SrcNames :
          (tasks[h][n].pc = "log" /\ tasks'[h][n].pc = "done") =>
              LET c == tasks[h][n].cid
                  record == tasks'[h][n].log[1] IN
              /\ record.kind = "Moved"
              /\ record.dst \in DOMAIN dst'
              /\ dst'[record.dst] = c
              /\ Places(c)' = {record.dst}
              /\ Holders(c)' = {}
      ]_vars

C12_SubdirectorySkipped ==
    [][ /\ \A h \in Handlers, n \in SrcNames :
              tracked[tracked_path[h]][n] = Directory =>
                  /\ tracked'[tracked_path[h]][n] = Directory
                  /\ tasks[h][n].pc = "none"
                  /\ tasks'[h][n].pc = "none"
        /\ \A p \in DOMAIN dst' : dst'[p] # Directory
        /\ \A r \in journal' : tracked[r.src.dir][r.src.name] # Directory
        /\ \A b \in dirs' \ dirs :
              \E h \in Handlers, n \in SrcNames :
                  /\ tasks[h][n].pc = "mkdir"
                  /\ tasks'[h][n].pc # "mkdir"
                  /\ \E c \in Created : origin[c] = n
                  /\ tracked[tracked_path[h]][n] # Directory
      ]_vars

\* a notification has listed the subdirectory "d.txt" next to a file, visited
\* both and returned: the file was moved, the subdirectory is still there
C12_Witness ==
    \E h \in Handlers :
        LET d == MkName("d", <<>>, ".txt") IN
        /\ npc[h] = "returned"
        /\ tracked[tracked_path[h]][d] = Directory
        /\ tasks[h][d].pc = "none"
        /\ \E n \in SrcNames : Kind(tasks[h][n]) = "Moved"

\* an extension as the ExtensionMap is meant to hold it
Normalized(key) == key = Lower(key) /\ FullMatch(key)

\* C13: in a watch session every key of extension_paths is lower-case and
\* begins with a dot, whatever write commands made the configs file.
C13_KeysNormalized ==
    main = "watching" => \A key \in DOMAIN extension_paths : Normalized(key)

\* C14: a file whose suffix differs from a lower-case key of the
\* ExtensionMap only in letter case goes where a file with the lower-case
\* suffix goes: "g.PDF" is handled as "g.pdf" would be, under the directory
\* of ".pdf", and keeps its name as it is spelled.
C14_CaseInsensitiveSuffix ==
    LET upper == (".PDF" :> ".pdf") @@ (".TXT" :> ".txt") @@ (".Txt" :> ".txt")
        AsLower(n) ==
            LET key == upper[n.suffix] IN
            IF key \in DOMAIN extension_paths
            THEN extension_paths[key] ELSE path_for_undefined_extensions
    IN  /\ \A h \in Handlers, n \in SrcNames :
              n.suffix \in DOMAIN upper =>
                  /\ Kind(tasks[h][n]) # "Skipping"
                  /\ tasks[h][n].pc \notin {"none", "done", "escaped"} =>
                        tasks[h][n].destination_path = AsLower(n)
        /\ \A r \in journal :
              r.src.name.suffix \in DOMAIN upper =>
                  /\ r.dst.dir.root = AsLower(r.src.name)
                  /\ r.dst.name.suffix = r.src.name.suffix

\* "g.PDF" has been moved to pdf/<year>/<month>/g.PDF
C14_Witness ==
    \E h \in Handlers :
        LET t == tasks[h][MkName("g", <<>>, ".PDF")] IN
        /\ Kind(t) = "Moved"
        /\ t.log[1].dst.dir.root = extension_paths[".pdf"]
        /\ t.log[1].dst.name = MkName("g", <<>>, ".PDF")

\* C15: _add_date_to_path called again, or by two threads at once, with the
\* same destination on the same date never raises, returns
\* <destination>/<4-digit year>/<3-letter month> each time, and only that one
\* dated directory (with the directories above it) comes to exist.
C15_AddDateToPathIdempotent ==
    LET date == DatedPath(ProbeDestination, now)
        dated_path == << ProbeDestination, ToString(date.year), date.mon >> IN
    /\ date.year \in 1000..9999
    /\ \E m \in 1..12 : date.mon = MonthAbbr[m]
    /\ probe.existing \subseteq Upto(dated_path)
    /\ \A p \in probe.existing : Parent(p) \in probe.existing
    /\ \A c \in Callers :
          /\ probe.status[c] # "raised"
          /\ probe.status[c] = "returned" =>
                /\ probe.result[c] = dated_path
                /\ dated_path \in probe.existing
          /\ probe.status[c] = "calling" => ENABLED MkdirStep(c)

\* a thread that found the dated directory missing and has made the
\* directories above it is about to make it, and the other thread has just
\* made it; and a thread has returned from its second call
C15_Witness ==
    \E a, b \in Callers :
        LET stack == probe.stack[a] IN
        /\ a # b
        /\ probe.status[a] = "calling"
        /\ Len(stack) = 1
        /\ ~stack[1].parents
        /\ stack[1].path \in probe.existing
        /\ probe.status[b] = "returned"
        /\ probe.calls[b] = 2

\* C16: after the interrupt every observer that was started is stopped if
\* its thread is alive and joined, in the order started, before
\* handle_track_args returns 0; when it returns no on_modified is running and
\* every task that was dispatched has ended with its one log record.
C16_ShutdownDrains ==
    [][ /\ \A h \in Handlers :
              (observer'[h] = "joined" /\ observer[h] # "joined") =>
                  /\ main = "stopping"
                  /\ \/ observer[h] = "stopped"
                     \/ observer[h] = "dead" /\ npc[h] = "raised"
                  /\ npc[h] # "iter"
        /\ (main' = "exited" /\ main # "exited") =>
              /\ exit_code' = << "track", EXIT_SUCCESS >>
              /\ \A h \in Handlers :
                    /\ observer[h] \in {"unstarted", "joined"}
                    /\ npc[h] \in {"idle", "returned", "raised"}
                    /\ \A n \in SrcNames :
                          /\ tasks[h][n].pc \in {"none", "done"}
                          /\ tasks[h][n].pc = "done" => Len(tasks[h][n].log) = 1
        /\ main = "exited" => UNCHANGED << tasks, npc, dst, dirs, journal >>
      ]_vars

\* handle_track_args has returned 0 from a session in which a file was moved
\* and both observers were joined
C16_Witness ==
    /\ main = "exited"
    /\ exit_code = << "track", EXIT_SUCCESS >>
    /\ \A h \in Handlers : observer[h] = "joined"
    /\ \E h \in Handlers, n \in SrcNames : Kind(tasks[h][n]) = "Moved"

\* C17, as stated: on_modified does not wait for the tasks it dispatched, so
\* once its loop is over it can return, whatever its tasks are doing.
C17_FireAndForget ==
    \A h \in Handlers : (npc[h] = "iter" /\ todo[h] = {}) => ENABLED Return(h)

\* C17, amended: on_modified waits for the tasks it dispatched: whenever no
\* on_modified of a handler is running, none of its tasks is in flight, and
\* none is in flight once its observer has been joined.
C17_HandlerWaitsForTasks ==
    \A h \in Handlers :
        (npc[h] # "iter" \/ observer[h] = "joined") =>
            \A n \in SrcNames : tasks[h][n].pc \in {"none", "done"}

\* the loop of on_modified is over, a task it dispatched is still running,
\* the observer has been stopped: on_modified, and with it join, waits
C17_Witness ==
    \E h \in Handlers :
        /\ npc[h] = "iter"
        /\ todo[h] = {}
        /\ observer[h] = "stopped"
        /\ \E n \in SrcNames : tasks[h][n].pc \in {"move", "unlink", "log"}
        /\ ~ENABLED Return(h)
        /\ ~ENABLED JoinObserver(h)

\* the order of the steps of one task: destination lookup ("none"), dated
\* directory ("mkdir"), name resolution ("exists", "while"), move ("move",
\* "unlink"), outcome log ("log")
PipelineEdges ==
    { <<"none", "mkdir">>, <<"none", "done">>,
      <<"mkdir", "exists">>, <<"mkdir", "done">>,
      <<"exists", "while">>, <<"exists", "move">>, <<"exists", "done">>,
      <<"while", "while">>, <<"while", "move">>, <<"while", "done">>,
      <<"move", "unlink">>, <<"move", "log">>, <<"move", "done">>,
      <<"unlink", "log">>, <<"unlink", "done">>,
      <<"log", "done">> }

\* C18: a task takes its steps in the order lookup, dated directory, name
\* resolution, move, log; a step that fails ends the task as Failed at once;
\* a task that has ended is not run again before the next notification, and
\* nothing but the step whose turn it is touches the tree.
C18_PipelineOrder ==
    [][ /\ \A h \in Handlers, n \in SrcNames :
              LET a == tasks[h][n].pc
                  b == tasks'[h][n].pc
                  next_notification ==
                      /\ npc[h] \in {"idle", "returned"}
                      /\ npc'[h] \in {"iter", "raised"}
              IN  tasks'[h][n] # tasks[h][n] =>
                      \/ next_notification /\ b = "none"
                      \/ /\ ~next_notification
                         /\ <<a, b>> \in PipelineEdges
                         /\ a = "none" => n \in todo[h] /\ n \notin todo'[h]
                         /\ b = "done" =>
                               /\ Kind(tasks'[h][n]) = "Skipping" <=> a = "none"
                               /\ Kind(tasks'[h][n]) = "Moved" <=> a = "log"
                               /\ Failed(tasks'[h][n]) <=> a \notin {"none", "log"}
                               /\ a # "log" => UNCHANGED << tracked, dst, dirs, journal >>
        /\ dirs' # dirs =>
              \E h \in Handlers, n \in SrcNames :
                  tasks[h][n].pc = "mkdir" /\ tasks'[h][n].pc = "exists"
        /\ dst' # dst =>
              \E h \in Handlers, n \in SrcNames :
                  tasks[h][n].pc = "move" /\ tasks'[h][n].pc \in {"log", "unlink"}
        /\ journal' # journal =>
              \E h \in Handlers, n \in SrcNames :
                  tasks[h][n].pc = "log" /\ tasks'[h][n].pc = "done"
      ]_vars

\* a task failed after its dated directory was made, and its notification
\* has returned with the file still in the tracked directory
C18_Witness ==
    \E h \in Handlers, n \in SrcNames :
        /\ npc[h] = "returned"
        /\ Failed(tasks[h][n])
        /\ tasks[h][n].cid = 0
        /\ tracked[tracked_path[h]][n] > 0
        /\ \E b \in dirs : b.root = Root(n)

\* C19: track returns EXIT_FAILURE, having started no observer, when the
\* configs are empty or none of the paths given is an existing directory;
\* otherwise it starts an observer for each path that is one and returns
\* nothing until it is interrupted; it returns EXIT_SUCCESS only from the
\* end of its finally block, with every observer it started joined.
C19_TrackExitCodes ==
    [][ /\ \A tracked_paths \in [Handlers -> {"w1", "missing", "notes.txt"}] :
              HandleTrackArgs(tracked_paths, None) =>
                  IF configs = << >> \/ \A h \in Handlers : tracked_paths[h] # "w1"
                  THEN /\ exit_code' = << "track", EXIT_FAILURE >>
                       /\ EXIT_FAILURE # 0
                       /\ main' = "shell"
                       /\ \A h \in Handlers : observer'[h] = "unstarted"
                  ELSE /\ exit_code' = << >>
                       /\ main' = "watching"
                       /\ \A h \in Handlers :
                             observer'[h] = IF tracked_paths[h] = "w1"
                                            THEN "running" ELSE "unstarted"
        /\ (exit_code' # exit_code /\ exit_code' # << >>) =>
              /\ exit_code'[1] = "track"
              /\ exit_code'[2] = EXIT_FAILURE => main = "shell" /\ main' = "shell"
              /\ exit_code'[2] = EXIT_SUCCESS =>
                    /\ EXIT_SUCCESS = 0
                    /\ main = "stopping" /\ main' = "exited"
                    /\ \E h \in Handlers : observer[h] = "joined"
                    /\ \A h \in Handlers :
                          observer[h] \in {"unstarted", "joined"} /\ npc[h] # "iter"
      ]_vars

\* track has returned EXIT_FAILURE although the configs hold extensions: no
\* path given was a directory
C19_Witness ==
    /\ configs # << >>
    /\ exit_code = << "track", EXIT_FAILURE >>
    /\ main = "shell"
    /\ \A h \in Handlers : observer[h] = "unstarted"

\* C20: a task that fails is reported once, under the most specific kind that
\* applies to what was raised: permission denied, else file not found, else
\* OS or move error, else unexpected error; the first three at critical level.
C20_FailureClassification ==
    [][ LET MostSpecific(e) ==
                CASE e = "PermissionError" -> "PermissionError"
                  [] e = "FileNotFoundError" -> "FileNotFoundError"
                  [] e \in {"OSError", "shutil.Error"} -> "OSError"
                  [] OTHER -> "Exception"
            Reported(h, n, e) ==
                /\ tasks'[h][n].pc = "done"
                /\ Len(tasks'[h][n].log) = 1
                /\ tasks'[h][n].log[1].kind = MostSpecific(e)
                /\ tasks'[h][n].log[1].level =
                      IF MostSpecific(e) = "Exception" THEN ERROR ELSE CRITICAL
                /\ CRITICAL > ERROR
            Injected == {"PermissionError", "OSError", "shutil.Error", "ValueError"}
        IN
        \A h \in Handlers, n \in SrcNames : (tasks'[h][n] # tasks[h][n]) =>
          /\ \A e \in Injected : IOFail(h, n, e) => Reported(h, n, e)
          /\ ( /\ tasks[h][n].pc \in {"move", "unlink"}
               /\ tasks'[h][n] # tasks[h][n]
               /\ tracked[tracked_path[h]][n] = 0
               /\ faults' = faults
               /\ npc'[h] = npc[h] )
             => Reported(h, n, "FileNotFoundError")
          /\ (Failed(tasks'[h][n]) /\ tasks'[h][n] # tasks[h][n]) =>
                \/ \E e \in Injected : IOFail(h, n, e)
                \/ tasks'[h][n].log[1].kind = "FileNotFoundError"
      ]_vars

\* one task has been reported as file not found, its source having been
\* moved by another task, and one as permission denied
C20_Witness ==
    \E h, g \in Handlers, n, m \in SrcNames :
        /\ Kind(tasks[h][n]) = "FileNotFoundError"
        /\ tasks[h][n].log[1].level = CRITICAL
        /\ Kind(tasks[g][m]) = "PermissionError"

C22_MapReadOnly ==
    [][ /\ extension_paths' = extension_paths
        /\ path_for_undefined_extensions' = path_for_undefined_extensions
        /\ extension_paths = ExtensionPaths
        /\ \A h \in Handlers, n \in SrcNames :
              tasks'[h][n].pc = "mkdir" =>
                  tasks'[h][n].destination_path =
                      DictGet(ExtensionPaths, Lower(n.suffix), path_for_undefined_extensions)
      ]_vars

\* the handlers of two tracked directories each have a task in flight that
\* read the map, and a file with an unmapped suffix has been looked up
C22_Witness ==
    /\ tracked_path["h1"] # tracked_path["h2"]
    /\ \E n, m \in SrcNames :
          /\ tasks["h1"][n].pc = "move"
          /\ tasks["h2"][m].pc = "move"
    /\ \E h \in Handlers, n \in SrcNames :
          /\ n.suffix = ".xyz"
          /\ tasks[h][n].pc # "none"
    /\ extension_paths = ExtensionPaths

\* C23: a write command that returns 1 (the extension to add is empty or
\* invalid, the path to add is empty, the file to load is no .json file or
\* cannot be read and parsed) leaves the configs file as it was before the
\* call, also when a valid --add came before the part that failed.
C23_FailedWriteLeavesConfigs ==
    [][ /\ exit_code' = << "write", EXIT_FAILURE >> => configs' = configs
        /\ EXIT_FAILURE = 1
        /\ exit_code' # << "write", EXIT_FAILURE >> =>
              \A new_config \in {<< >>} \cup ({".TXT", "txt", ". pdf", ""} \X {"txt", " "}),
                 json_file \in {<< >>} \cup { << j >> : j \in JsonFiles } :
                  LET bad_add ==
                          /\ new_config # << >>
                          /\ new_config[1] \in {"txt", ""} \/ new_config[2] = " "
                      bad_load ==
                          /\ json_file # << >>
                          /\ json_file[1].suffix \notin {".json", ".JSON"}
                                \/ ~json_file[1].readable
                  IN  (bad_add \/ bad_load) =>
                          \A configs_to_be_removed \in SUBSET {".TXT", "txt"} :
                              ~HandleWriteArgs(new_config, json_file, configs_to_be_removed)
      ]_vars

\* a write command has returned 1 on a configs file that earlier commands
\* had filled, and adding ".pdf" with a file that cannot be loaded is one
\* such command
C23_Witness ==
    /\ exit_code = << "write", EXIT_FAILURE >>
    /\ configs # << >>
    /\ ".pdf" \notin DOMAIN configs
    /\ \E j \in JsonFiles :
          /\ ~j.readable
          /\ AddNewConfig(configs, << ". pdf", "txt" >>).ok
          /\ ENABLED HandleWriteArgs(<< ". pdf", "txt" >>, << j >>, {})

C26_DefaultLogLocationUsed ==
    (probe.pc \in {"checked", "handled"} /\ probe.given.suffix \notin {".log", ".LOG"}) =>
        /\ probe.file_handler = DEFAULT_LOG_LOCATION
        /\ probe.file_handler = probe.args.log_location

\* every notification due has been delivered and handled, and no task is
\* running: nothing will happen until someone writes to the directory
Settled ==
    /\ Idle
    /\ Quiet
    /\ count = Notifications

C28_MovedAtMostOnce ==
    /\ \A c \in Created :
          /\ Cardinality({ r \in journal : r.cid = c }) <= 1
          /\ (\E h, g \in Handlers :
                 /\ h # g
                 /\ tracked_path[h] = tracked_path[g]
                 /\ tasks[h][origin[c]].cid = c
                 /\ tasks[g][origin[c]].cid = c)
             => Cardinality(Places(c)) <= 1
          /\ \A r \in journal : (r.cid = c /\ dst[r.dst] = c) => Places(c) = {r.dst}
    /\ \A h, g \in Handlers, n \in SrcNames :
          ( /\ h # g
            /\ tracked_path[h] = tracked_path[g]
            /\ Kind(tasks[h][n]) = "Moved"
            /\ Failed(tasks[g][n])
            /\ faults = 0 )
          => /\ Kind(tasks[g][n]) = "FileNotFoundError"
             /\ tasks[g][n].log[1].level = CRITICAL


\* C29: a write command applies --add, then --load, then --remove, and writes
\* once: an extension given to --add that --remove names too is not in the
\* configs written, also when the JSON file holds it; an extension given to
\* --add that the JSON file holds too, and that is not removed, has the path
\* of the JSON file; otherwise it has the path given to --add.
C29_AddLoadRemoveOrder ==
    [][ exit_code' = << "write", EXIT_SUCCESS >> =>
          \A new_config \in {<< ".TXT", "txt" >>, << ". pdf", "txt" >>},
             json_file \in {<< >>} \cup { << j >> : j \in JsonFiles },
             configs_to_be_removed \in SUBSET {".TXT", "txt"} :
              HandleWriteArgs(new_config, json_file, configs_to_be_removed) =>
                  LET extension == IF new_config[1] = ".TXT" THEN ".txt" ELSE ".pdf"
                      removed == extension = ".txt" /\ ".TXT" \in configs_to_be_removed
                      from_json == IF json_file = << >> THEN << >>
                                   ELSE json_file[1].content
                  IN  /\ removed => extension \notin DOMAIN configs'
                      /\ ~removed =>
                            /\ extension \in DOMAIN configs'
                            /\ configs'[extension] =
                                  IF extension \in DOMAIN from_json
                                  THEN from_json[extension] ELSE new_config[2]
      ]_vars

\* the configs as --add ".TXT" "txt" with a JSON file that holds ".txt": "pdf"
\* leaves them, and the same command with --remove ".TXT" can be run on them
C29_Witness ==
    /\ exit_code = << "write", EXIT_SUCCESS >>
    /\ configs = (".txt" :> "pdf")
    /\ \E j \in JsonFiles :
          /\ j.readable /\ j.suffix = ".json" /\ j.content = (".txt" :> "pdf")
          /\ ENABLED HandleWriteArgs(<< ".TXT", "txt" >>, << j >>, {})
          /\ ENABLED HandleWriteArgs(<< ".TXT", "txt" >>, << j >>, {".TXT"})


\* C30: a task whose shutil.move ends in FileNotFoundError because the source
\* file is gone has created the dated directory before; the directory is
\* still there when the task ends (no step removes a directory), and no file
\* of that source is in it, other than one that a move that went through,
\* of another task, has put there.
C30_DatedDirectoryKept ==
    [][ /\ dirs \subseteq dirs'
        /\ \A h \in Handlers, n \in SrcNames :
              LET t == tasks[h][n]
                  moved_by_others ==
                      { FilePath(tasks[g][n].dated, tasks[g][n].new_path) :
                          g \in { x \in Handlers \ {h} :
                                    tasks[x][n].pc = "log" /\ tasks[x][n].cid = t.cid } }
                      \cup { r.dst : r \in { x \in journal : x.cid = t.cid } }
              IN
              ( /\ t.pc \in {"move", "unlink"}
                /\ tracked[tracked_path[h]][n] = 0
                /\ Kind(tasks'[h][n]) = "FileNotFoundError" ) =>
                  /\ t.dated \in dirs
                  /\ t.dated \in dirs'
                  /\ \A p \in DOMAIN dst' :
                        (p.dir = t.dated /\ t.cid # 0 /\ dst'[p] = t.cid) =>
                            p \in moved_by_others
      ]_vars

====
